---- MODULE Spec2Model ----
(***************************************************************************)
(* pychemqt: the project configuration wizard (UI/wizard.py) and the heat  *)
(* exchanger charts (equipment/UI_heatExchanger.py) as one state machine.  *)
(* One dialog is open in a behaviour; `dialog` names it. The periodic     *)
(* table helper (lib/elemental.py) is a further alternative of `dialog`.   *)
(***************************************************************************)
EXTENDS Integers, Sequences, FiniteSets, TLC

VARIABLES
    dialog,         \* which dialog this behaviour runs
    \* ---- Wizard (UI/wizard.py)
    environ,        \* os.environ flags read by auto()
    currentId,      \* QWizard.currentId(), -1 before the wizard is shown
    nextEnabled,    \* button(NextButton).isEnabled()
    customVisible,  \* button(CustomButton1).isVisible()
    indices,        \* self.componentes.indices
    thermoConfig,   \* configuration last given to self.thermo.setConfig
    lastAuto,       \* the last evaluation of auto(): its components and result
    autoRun,        \* the run of Wizard.auto in the last step, if it was one
    self_config,    \* Wizard.config, the ConfigParser given to the constructor
    valueCalls,     \* the page value() calls of the last read of Wizard.value
    result,         \* what the last read of Wizard.value returned
    fields,         \* UI_equipment: the value of each input field
    lastCalculo,    \* UI_equipment: the last call of calculo(**kwargs)
    equipment,      \* UI_equipment: whether __init__ was given an equipment
    \* ---- Chart dialogs (equipment/UI_heatExchanger.py)
    flowIndex,      \* self.flow.currentIndex()
    mixedIndex,     \* self.mixed.currentIndex()
    mixedVisible,   \* self.mixed.isVisible()
    curves,         \* the lines given to self.diagrama.plot by the last plot()
    img,            \* the equation image read by the last plot()
    saved,          \* what the last Chart.save() did
    \* ---- Periodic table helper (lib/elemental.py)
    databank,       \* rows the module-level cursor still holds
    element         \* the last Elemental(id): its argument and its id attribute

wizardVars == <<environ, currentId, nextEnabled, customVisible, indices,
                thermoConfig, lastAuto, autoRun>>
chartVars == <<flowIndex, mixedIndex, mixedVisible, curves, img, saved>>
elementalVars == <<databank, element>>
valueVars == <<self_config, valueCalls, result>>
equipmentVars == <<fields, lastCalculo, equipment>>
restVars == <<elementalVars, valueVars, equipmentVars>>
vars == <<dialog, wizardVars, chartVars, restVars>>

-----------------------------------------------------------------------------
(* Bounds and input sets *)

MaxComponents == 2
CompIds == {1, 2, 62}
Temps == {273, 500}
Pressures == {1, 100}

RECURSIVE SeqsUpTo(_, _)
SeqsUpTo(S, n) ==
    IF n = 0 THEN {<<>>}
    ELSE LET shorter == SeqsUpTo(S, n - 1)
         IN shorter \cup {Append(s, x) : s \in shorter, x \in S}

-----------------------------------------------------------------------------
(* UI/wizard.py *)

\* Component id lists of the thermo libraries that auto() consults.
id_GERG == {1, 62}
refProp_all == {1, 2, 62}
id_mEoS == {2, 62}
coolProp_all == {2}

\* ConfigParser "Thermo" section: the set of options holding "True".
ThermoDefault == {}

GERG_available(components) ==
    \A k \in 1..Len(components) : components[k] \in id_GERG
REFPROP_available(components) ==
    \A k \in 1..Len(components) : components[k] \in refProp_all

auto(tmin, tmax, pmin, pmax, components, env) ==
    ThermoDefault
    \cup (IF Len(components) = 1 /\ components[1] = 62
          THEN {"iapws"} \cup (IF env.freesteam THEN {"freesteam"} ELSE {})
          ELSE {})
    \cup (IF Len(components) = 1 /\ components[1] \in id_mEoS
          THEN {"MEoS"} ELSE {})
    \cup (IF env.CoolProp /\ Len(components) = 1
             /\ components[1] \in coolProp_all
          THEN {"coolprop"} ELSE {})
    \cup (IF env.refprop /\ REFPROP_available(components)
          THEN {"refprop"} ELSE {})
    \cup (IF GERG_available(components) THEN {"GERG"} ELSE {})

\* Wizard.checkComponents(id): the two buttons after the slot has run.
checkComponents_wrongPage(id, next, inds) ==
    [NextButton |-> IF id = 1 THEN Len(inds) # 0 ELSE next,
     CustomButton1 |-> (id = 1)]
checkComponents_noCheck(id, next, inds) ==
    [NextButton |-> next, CustomButton1 |-> (id = 2)]
checkComponents(id, next, inds) ==
    [NextButton |-> IF id = 1 THEN Len(inds) # 0 ELSE next,
     CustomButton1 |-> (id = 2)]

LastPage == 4

\* QWizard changes page: it enables Next when a next page exists, then emits
\* currentIdChanged(id), which is connected to checkComponents.
switchToPage(id) ==
    LET b == checkComponents(id, id < LastPage, indices)
    IN /\ currentId' = id
       /\ nextEnabled' = b.NextButton
       /\ customVisible' = b.CustomButton1

NoAuto == [called |-> FALSE, components |-> <<>>, config |-> {}]

NoRun == [outcome |-> "none", changedInExec |-> FALSE, evals |-> 0,
          setConfigs |-> 0,
          tmin |-> 0, tmax |-> 0, pmin |-> 0, pmax |-> 0]
\* Wizard.auto is inside dialogo.exec_(): AutoDialog is application-modal,
\* so the wizard takes no user input until exec_() returns.
AutoDialogOpen == autoRun.outcome = "open"

\* Before show() the wizard has no current page: QWizard keeps Next disabled
\* and no button of a window that is not shown is visible.
WizardInit ==
    /\ environ \in [freesteam : BOOLEAN, CoolProp : BOOLEAN, refprop : BOOLEAN]
    /\ currentId = -1
    /\ nextEnabled = FALSE
    /\ customVisible = FALSE
    /\ indices \in SeqsUpTo(CompIds, 1)
    /\ thermoConfig = ThermoDefault
    /\ lastAuto = NoAuto
    /\ autoRun = NoRun

\* Chart.save(): QtWidgets is the module PyQt5.QtWidgets, and subscripting a
\* module raises TypeError before getSaveFileName or savefig is reached.
NotSaved == [invoked |-> FALSE, dialogShown |-> FALSE, error |-> "", file |-> ""]
Chart_save(fname) ==
    [invoked |-> TRUE, dialogShown |-> FALSE, error |-> "TypeError",
     file |-> ""]

ChartIdle ==
    /\ saved = NotSaved
    /\ flowIndex = 0
    /\ mixedIndex = 0
    /\ mixedVisible = FALSE
    /\ curves = <<>>
    /\ img = ""

\* ui.show(): the wizard starts on its first page.
Show ==
    /\ dialog = "Wizard"
    /\ ~AutoDialogOpen
    /\ currentId = -1
    /\ switchToPage(0)
    /\ autoRun' = NoRun
    /\ UNCHANGED <<dialog, environ, indices, thermoConfig, lastAuto,
                   chartVars, restVars>>

NextClicked ==
    /\ dialog = "Wizard"
    /\ ~AutoDialogOpen
    /\ currentId \in 0..(LastPage - 1)
    /\ nextEnabled
    /\ switchToPage(currentId + 1)
    /\ autoRun' = NoRun
    /\ UNCHANGED <<dialog, environ, indices, thermoConfig, lastAuto,
                   chartVars, restVars>>

BackClicked ==
    /\ dialog = "Wizard"
    /\ ~AutoDialogOpen
    /\ currentId \in 1..LastPage
    /\ switchToPage(currentId - 1)
    /\ autoRun' = NoRun
    /\ UNCHANGED <<dialog, environ, indices, thermoConfig, lastAuto,
                   chartVars, restVars>>

\* The components widget lives on page 1; a change of its list emits
\* componentChanged(list is non-empty), connected to NextButton.setEnabled.
componentChanged(newIndices) ==
    /\ indices' = newIndices
    /\ nextEnabled' = (Len(newIndices) # 0)

RemoveAt(s, k) == [j \in 1..(Len(s) - 1) |-> IF j < k THEN s[j] ELSE s[j + 1]]

AddComponent ==
    /\ dialog = "Wizard"
    /\ ~AutoDialogOpen
    /\ currentId = 1
    /\ Len(indices) < MaxComponents
    /\ \E c \in CompIds : componentChanged(Append(indices, c))
    /\ autoRun' = NoRun
    /\ UNCHANGED <<dialog, environ, currentId, customVisible, thermoConfig,
                   lastAuto, chartVars, restVars>>

RemoveComponent ==
    /\ dialog = "Wizard"
    /\ ~AutoDialogOpen
    /\ currentId = 1
    /\ \E k \in 1..Len(indices) : componentChanged(RemoveAt(indices, k))
    /\ autoRun' = NoRun
    /\ UNCHANGED <<dialog, environ, currentId, customVisible, thermoConfig,
                   lastAuto, chartVars, restVars>>

\* Wizard.auto() up to dialogo.exec_(): customButtonClicked constructs
\* AutoDialog and enters its event loop.
Wizard_auto ==
    /\ dialog = "Wizard"
    /\ ~AutoDialogOpen
    /\ currentId # -1
    /\ customVisible
    /\ autoRun' = [NoRun EXCEPT !.outcome = "open"]
    /\ UNCHANGED <<dialog, environ, currentId, nextEnabled, customVisible,
                   indices, thermoConfig, lastAuto, chartVars, restVars>>

\* An event delivered by the event loop of exec_() (a timer, a queued
\* signal) changes the list of the components widget while AutoDialog is
\* open; the widget emits componentChanged as for any change.
ComponentsChangedInExec ==
    /\ dialog = "Wizard"
    /\ AutoDialogOpen
    /\ \/ /\ Len(indices) < MaxComponents
          /\ \E c \in CompIds : componentChanged(Append(indices, c))
       \/ \E k \in 1..Len(indices) : componentChanged(RemoveAt(indices, k))
    /\ autoRun' = [autoRun EXCEPT !.changedInExec = TRUE]
    /\ UNCHANGED <<dialog, environ, currentId, customVisible, thermoConfig,
                   lastAuto, chartVars, restVars>>

\* Wizard.auto() from the return of exec_() on, with auto() and setConfig
\* run whatever exec_() returned.
Wizard_auto_exec_noCheck ==
    /\ dialog = "Wizard"
    /\ AutoDialogOpen
    /\ \E accepted \in BOOLEAN, tmin \in Temps, tmax \in Temps,
          pmin \in Pressures, pmax \in Pressures :
          LET config == auto(tmin, tmax, pmin, pmax, indices, environ)
          IN /\ thermoConfig' = config
             /\ lastAuto' = [called |-> TRUE, components |-> indices,
                             config |-> config]
             /\ autoRun' = [autoRun EXCEPT
                               !.outcome = IF accepted THEN "accepted"
                                           ELSE "rejected",
                               !.evals = 1, !.setConfigs = 1,
                               !.tmin = tmin, !.tmax = tmax,
                               !.pmin = pmin, !.pmax = pmax]
    /\ UNCHANGED <<dialog, environ, currentId, nextEnabled, customVisible,
                   indices, chartVars, restVars>>
\* Wizard.auto() from the return of exec_() on: on accept the thermo page
\* takes auto() of the values entered and of the components as they are now.
Wizard_auto_exec ==
    /\ dialog = "Wizard"
    /\ AutoDialogOpen
    /\ \E accepted \in BOOLEAN :
          IF accepted
          THEN \E tmin \in Temps, tmax \in Temps,
                  pmin \in Pressures, pmax \in Pressures :
                  LET config == auto(tmin, tmax, pmin, pmax, indices, environ)
                  IN /\ thermoConfig' = config
                     /\ lastAuto' = [called |-> TRUE, components |-> indices,
                                     config |-> config]
                     /\ autoRun' = [autoRun EXCEPT
                                       !.outcome = "accepted",
                                       !.evals = 1, !.setConfigs = 1,
                                       !.tmin = tmin, !.tmax = tmax,
                                       !.pmin = pmin, !.pmax = pmax]
          ELSE /\ autoRun' = [autoRun EXCEPT !.outcome = "rejected"]
               /\ UNCHANGED <<thermoConfig, lastAuto>>
    /\ UNCHANGED <<dialog, environ, currentId, nextEnabled, customVisible,
                   indices, chartVars, restVars>>

\* A ConfigParser: its sections, and per section the set of <<key, value>>.
Sections == {"Components", "Thermo", "Transport", "Units", "PFD"}
\* `parser` is FALSE for Python's None in the place of a ConfigParser.
EmptyConfig ==
    [parser |-> TRUE, sections |-> {}, items |-> [sec \in Sections |-> {}]]
NoConfig == [EmptyConfig EXCEPT !.parser = FALSE]
has_section(cfg, sec) == sec \in cfg.sections
add_section(cfg, sec) == [cfg EXCEPT !.sections = @ \cup {sec}]
set(cfg, sec, key, val) ==
    [cfg EXCEPT !.items[sec] = {kv \in @ : kv[1] # key} \cup {<<key, val>>}]

\* pychemqtrc, the user preferences read by Wizard.value.
Preferences == set(set(add_section(EmptyConfig, "PFD"), "PFD", "x", 800),
                   "PFD", "y", 600)
get(cfg, sec, key) == (CHOOSE kv \in cfg.items[sec] : kv[1] = key)[2]

\* The configurations a wizard is constructed with: none (the default of
\* the constructor), a new project's, with no PFD section, and a saved
\* project's, whose PFD section holds its own size.
ConfigWithPFD == set(set(add_section(EmptyConfig, "PFD"), "PFD", "x", 1024),
                     "PFD", "y", 768)
InitialConfigs == {NoConfig, EmptyConfig, ConfigWithPFD}

\* value() of a page widget: the page writes its own section from its state.
\* A call is the pair of the configuration so far and the pages applied.
page_value(call, page, sec, key, val) ==
    [config |-> set(add_section(call.config, sec), sec, key, val),
     pages |-> Append(call.pages, page)]
componentes_value(call) ==
    page_value(call, "componentes", "Components", "components", indices)
thermo_value(call) ==
    page_value(call, "thermo", "Thermo", "methods", thermoConfig)
transport_value(call) ==
    page_value(call, "transport", "Transport", "methods", "default")
units_value(call) ==
    page_value(call, "units", "Units", "system", "default")

\* Wizard.value: the four pages in turn, then the PFD section if missing.
Wizard_value(cfg) ==
    LET units == units_value(transport_value(thermo_value(
                     componentes_value([config |-> cfg, pages |-> <<>>]))))
        withPFD == add_section(units.config, "PFD")
    IN IF ~has_section(units.config, "PFD")
       THEN [units EXCEPT !.config =
                set(set(withPFD, "PFD", "x", get(Preferences, "PFD", "x")),
                    "PFD", "y", get(Preferences, "PFD", "y"))]
       ELSE units

NoResult == [returned |-> FALSE, raised |-> FALSE, config |-> EmptyConfig]

ValueInit ==
    /\ self_config \in InitialConfigs
    /\ valueCalls = <<>>
    /\ result = NoResult

ValueIdle ==
    /\ self_config = NoConfig
    /\ valueCalls = <<>>
    /\ result = NoResult

\* The Finish button, shown on the last page, accepts the wizard: exec_()
\* returns and the dialog takes no more input.
Finish ==
    /\ dialog = "Wizard"
    /\ ~AutoDialogOpen
    /\ currentId = LastPage
    /\ dialog' = "WizardAccepted"
    /\ UNCHANGED <<wizardVars, chartVars, restVars>>

\* The caller reads Wizard.value of the accepted wizard; the pages and
\* Wizard.value write into the ConfigParser they are handed. Without one,
\* None goes to componentes.value, which raises or starts from a
\* ConfigParser of its own.
ReadValue ==
    /\ dialog = "WizardAccepted"
    /\ IF self_config.parser
       THEN LET call == Wizard_value(self_config)
            IN /\ self_config' = call.config
               /\ valueCalls' = call.pages
               /\ result' = [returned |-> TRUE, raised |-> FALSE,
                             config |-> call.config]
       ELSE \/ /\ valueCalls' = <<"componentes">>
               /\ result' = [NoResult EXCEPT !.raised = TRUE]
               /\ UNCHANGED self_config
            \/ LET call == Wizard_value(EmptyConfig)
               IN /\ valueCalls' = call.pages
                  /\ result' = [returned |-> TRUE, raised |-> FALSE,
                                config |-> call.config]
                  /\ UNCHANGED self_config
    /\ UNCHANGED <<dialog, wizardVars, chartVars, elementalVars,
                   equipmentVars>>

-----------------------------------------------------------------------------
(* equipment/UI_heatExchanger.py: the chart dialogs *)

Charts == {"Efectividad", "TemperatureEfectividad", "F", "Fi"}

\* The tag column of each class attribute `flujo`.
Efectividad_flujo ==
    <<"CF", "PF", "CrFunMix", "CrFSMix", "CrFMix", "1-2TEMAE">>
TemperatureEfectividad_flujo_typo ==
    <<"CF", "PF", "CrFunMix", "CrFSMix", "CrFMix", "1-2TEMAE", "1-2TEMAE2",
      "1-3TEMAE", "1-4TEMAE", "1-1TEMAG", "1-2TEMAG", "1-1TEMAH", "1-2TEMAH",
      "1-1TEMAJ", "1-2TEMAJ", "1-4TEMAK">>
TemperatureEfectividad_flujo ==
    <<"CF", "PF", "CrFunMix", "CrFSMix", "CrFMix", "1-2TEMAE", "1-2TEMAE2",
      "1-3TEMAE", "1-4TEMAE", "1-1TEMAG", "1-2TEMAG", "1-1TEMAH", "1-2TEMAH",
      "1-1TEMAJ", "1-2TEMAJ", "1-4TEMAJ">>
F_flujo == <<"CrFunMix", "CrFSMix", "CrFMix", "1-2TEMAE">>
Fi_flujo_uncommented == <<"CrFunMix", "CrFSMix", "CrFMix", "1-2TEMAE">>
Fi_flujo == <<"1-2TEMAE">>

flujo(chart) ==
    CASE chart = "Efectividad" -> Efectividad_flujo
      [] chart = "TemperatureEfectividad" -> TemperatureEfectividad_flujo
      [] chart = "F" -> F_flujo
      [] chart = "Fi" -> Fi_flujo

\* The class attribute `mezclado` of each chart.
mezclado(chart) ==
    CASE chart = "Efectividad" -> <<"Cmin", "Cmax">>
      [] chart = "TemperatureEfectividad" -> <<"1", "2">>
      [] chart = "F" -> <<"Cmin", "Cmax">>
      [] chart = "Fi" -> <<"Cmin", "Cmax">>

\* scipy.arange and scipy.logspace on integer-scaled values.
arange(start, stop, step) ==
    [k \in 1..((stop - start + step - 1) \div step) |-> start + (k - 1) * step]
logspace(start, stop, num) ==
    [k \in 1..num |-> start + ((k - 1) * (stop - start)) \div (num - 1)]

\* Parameter lists and abscissa grids of the four plot methods.
\* C, R in tenths; NTU of Efectividad in tenths; P in hundredths; an NTU
\* sample n of TemperatureEfectividad stands for 10^(n/198).
Efectividad_C == <<0, 2, 4, 6, 8, 10>>
Efectividad_NTU == arange(0, 61, 1)
TemperatureEfectividad_R ==
    <<2, 3, 4, 5, 6, 7, 8, 9, 10, 12, 14, 16, 18, 20, 25, 30, 40, 60, 80,
      100, 150>>
TemperatureEfectividad_NTU == logspace(-297, 198, 100)
F_R ==
    <<1, 2, 3, 4, 5, 6, 7, 8, 9, 10, 12, 14, 16, 18, 20, 25, 30, 40, 60, 80,
      100, 150, 200>>
F_P_coarse == arange(0, 101, 10)
F_P == arange(0, 101, 1)
Fi_R ==
    <<0, 1, 2, 3, 4, 5, 6, 7, 8, 9, 10, 12, 14, 16, 18, 20, 25, 30, 40, 60,
      80, 100>>
Fi_P == arange(0, 101, 1)
Fi_NTU == <<2, 4, 6, 8, 10, 12, 14, 16, 18, 20, 25, 30>>

\* A plotted ordinate: the literal 0, a number num/den computed in the plot
\* method itself, or the value of one evaluator call
\* Heat_ExchangerDesign.<fn>(x, par, flujo, **kw), kept as the call itself.
Zero == [fn |-> "0", x |-> 0, par |-> 0, flujo |-> "", kw |-> {}]
Quotient(num, den) ==
    [fn |-> "/", x |-> num, par |-> den, flujo |-> "", kw |-> {}]
IsCall(p) == p.fn \notin {"0", "/"}
Call(fn, x, par, tag, kw) ==
    [fn |-> fn, x |-> x, par |-> par, flujo |-> tag, kw |-> kw]

\* kw / kwargs of the plot methods: {} or {mixed: text}, as key-value pairs.
kwargs_always(tag, mixedText) == {<<"mixed", mixedText>>}
kwargs(tag, mixedText) ==
    IF tag = "CrFSMix" THEN {<<"mixed", mixedText>>} ELSE {}

\* One line of Efectividad.plot: e = [0] + [efectividad(N, ci, ...) for N in NTU[1:]]
Efectividad_curve_noZero(ci, tag, kw) ==
    [x |-> Efectividad_NTU,
     y |-> [k \in 1..Len(Efectividad_NTU) |->
                Call("efectividad", Efectividad_NTU[k], ci, tag, kw)]]
Efectividad_curve(ci, tag, kw) ==
    [x |-> Efectividad_NTU,
     y |-> <<Zero>> \o
           [k \in 1..(Len(Efectividad_NTU) - 1) |->
                Call("efectividad", Tail(Efectividad_NTU)[k], ci, tag, kw)]]

TemperatureEfectividad_curve(ri, tag, kw) ==
    [x |-> TemperatureEfectividad_NTU,
     y |-> <<Zero>> \o
           [k \in 1..(Len(TemperatureEfectividad_NTU) - 1) |->
                Call("TemperatureEffectiveness",
                     Tail(TemperatureEfectividad_NTU)[k], ri, tag, kw)]]

F_curve(ri, tag, kw) ==
    [x |-> F_P,
     y |-> [k \in 1..Len(F_P) |-> Call("CorrectionFactor", F_P[k], ri, tag, kw)]]

Fi_curve(ri, tag, kw) ==
    [x |-> Fi_P,
     y |-> [k \in 1..Len(Fi_P) |-> Call("Fi", Fi_P[k], ri, tag, kw)]]

\* plot(indice) of each chart: the visibility of the mixed combo box after
\* it, the lines drawn and the equation image read.
Efectividad_plot(indice, mixedIdx, visible) ==
    LET tag == Efectividad_flujo[indice + 1]
        kw == kwargs(tag, mezclado("Efectividad")[mixedIdx + 1])
    IN [mixedVisible |-> (tag = "CrFSMix"),
        curves |-> [c \in 1..Len(Efectividad_C) |->
                        Efectividad_curve(Efectividad_C[c], tag, kw)],
        img |-> tag \o ".png"]

TemperatureEfectividad_plot(indice, mixedIdx, visible) ==
    LET tag == TemperatureEfectividad_flujo[indice + 1]
        kw == kwargs(tag, mezclado("TemperatureEfectividad")[mixedIdx + 1])
    IN [mixedVisible |-> (tag = "CrFSMix"),
        curves |-> [c \in 1..Len(TemperatureEfectividad_R) |->
                        TemperatureEfectividad_curve(
                            TemperatureEfectividad_R[c], tag, kw)],
        img |-> IF tag = "CrFSMix" /\ mixedIdx # 0
                THEN tag \o "2.png" ELSE tag \o ".png"]

F_plot(indice, mixedIdx, visible) ==
    LET tag == F_flujo[indice + 1]
        kw == kwargs(tag, mezclado("F")[mixedIdx + 1])
    IN [mixedVisible |-> visible,
        curves |-> [c \in 1..Len(F_R) |-> F_curve(F_R[c], tag, kw)],
        img |-> tag \o ".png"]

\* One dotted line of Fi.plot: plot([0, 1], [0, 1./ntu]), ntu in tenths.
Fi_dotted(ntu) == [x |-> <<0, 100>>, y |-> <<Zero, Quotient(10, ntu)>>]

Fi_plot(indice, mixedIdx, visible) ==
    LET tag == Fi_flujo[indice + 1]
        kw == kwargs(tag, mezclado("Fi")[mixedIdx + 1])
    IN [mixedVisible |-> visible,
        curves |-> [c \in 1..Len(Fi_R) |-> Fi_curve(Fi_R[c], tag, kw)]
                   \o [n \in 1..Len(Fi_NTU) |-> Fi_dotted(Fi_NTU[n])],
        img |-> tag \o ".png"]

plot(chart, indice, mixedIdx, visible) ==
    CASE chart = "Efectividad" -> Efectividad_plot(indice, mixedIdx, visible)
      [] chart = "TemperatureEfectividad" ->
            TemperatureEfectividad_plot(indice, mixedIdx, visible)
      [] chart = "F" -> F_plot(indice, mixedIdx, visible)
      [] chart = "Fi" -> Fi_plot(indice, mixedIdx, visible)

Draw(p) ==
    /\ mixedVisible' = p.mixedVisible
    /\ curves' = p.curves
    /\ img' = p.img

\* __init__ of a chart: both combo boxes at their first item, plot(0), then
\* showMaximized(), which shows every child not hidden explicitly.
ChartInit ==
    LET p == plot(dialog, 0, 0, TRUE)
    IN /\ flowIndex = 0
       /\ mixedIndex = 0
       /\ mixedVisible = p.mixedVisible
       /\ curves = p.curves
       /\ img = p.img
       /\ saved = NotSaved

WizardIdle ==
    /\ environ = [freesteam |-> FALSE, CoolProp |-> FALSE, refprop |-> FALSE]
    /\ currentId = -1
    /\ nextEnabled = FALSE
    /\ customVisible = FALSE
    /\ indices = <<>>
    /\ thermoConfig = ThermoDefault
    /\ lastAuto = NoAuto
    /\ autoRun = NoRun

\* The user picks another arrangement: flow.currentIndexChanged -> plot.
FlowChanged ==
    /\ dialog \in Charts
    /\ \E i \in 0..(Len(flujo(dialog)) - 1) :
          /\ i # flowIndex
          /\ flowIndex' = i
          /\ Draw(plot(dialog, i, mixedIndex, mixedVisible))
    /\ UNCHANGED <<dialog, mixedIndex, saved, wizardVars, restVars>>

\* The user picks another mixed entry: mixed.currentIndexChanged ->
\* changeMixed, which plots the arrangement currently selected.
changeMixed_stale(indice) ==
    /\ mixedIndex' = indice
    /\ Draw(plot(dialog, flowIndex, mixedIndex, mixedVisible))
changeMixed(indice) ==
    /\ mixedIndex' = indice
    /\ Draw(plot(dialog, flowIndex, indice, mixedVisible))

MixedChanged ==
    /\ dialog \in Charts
    /\ mixedVisible
    /\ \E j \in 0..(Len(mezclado(dialog)) - 1) :
          /\ j # mixedIndex
          /\ changeMixed(j)
    /\ UNCHANGED <<dialog, flowIndex, saved, wizardVars, restVars>>

\* The user clicks botonGuardar (clicked -> self.save) and would pick fname.
FileNames == {"chart.png", "other.png"}
SaveClicked ==
    /\ dialog \in Charts
    /\ \E fname \in FileNames : saved' = Chart_save(fname)
    /\ UNCHANGED <<dialog, flowIndex, mixedIndex, mixedVisible, curves, img,
                   wizardVars, restVars>>

-----------------------------------------------------------------------------
(* equipment/UI_heatExchanger.py: the equipment dialog, opened without an  *)
(* equipment                                                               *)

\* An Entrada_con_unidades holds no value, <<>>, or one value, <<v>>.
None == <<>>
Values == {0, 10}
Fields == {"Tout", "DeltaT", "Heat", "A", "U", "Text", "DeltaP"}
clear(f, name) == [f EXCEPT ![name] = None]

\* changeParams with the DeltaT branch clearing Heat alone.
changeParams_DeltaTKeepsTout(f, parametro) ==
    IF parametro = "Tout" THEN clear(clear(f, "Heat"), "DeltaT")
    ELSE IF parametro = "DeltaT" THEN clear(f, "Heat")
    ELSE IF parametro = "Heat" THEN clear(clear(f, "DeltaT"), "Tout")
    ELSE f
\* UI_equipment.changeParams: the fields after its clear() calls.
changeParams(f, parametro) ==
    IF parametro = "Tout" THEN clear(clear(f, "Heat"), "DeltaT")
    ELSE IF parametro = "DeltaT" THEN clear(clear(f, "Heat"), "Tout")
    ELSE IF parametro = "Heat" THEN clear(clear(f, "DeltaT"), "Tout")
    ELSE f

NoCalculo == [called |-> FALSE, parametro |-> "", valor |-> 0]

\* The fields as __init__ constructs them: empty but DeltaP, value=0.
ConstructedFields ==
    [name \in Fields |-> IF name = "DeltaP" THEN <<0>> ELSE None]
\* setEquipment(equipment) of the base class shows the equipment in the
\* dialog: any contents of the input fields can come of it.
setEquipment == [Fields -> {None} \cup {<<v>> : v \in Values}]

\* __init__(equipment): the fields, then setEquipment if one was given.
UI_equipment_init ==
    /\ equipment \in BOOLEAN
    /\ IF equipment THEN fields \in setEquipment
                    ELSE fields = ConstructedFields
    /\ lastCalculo = NoCalculo

UI_equipment_idle ==
    /\ equipment = FALSE
    /\ fields = ConstructedFields
    /\ lastCalculo = NoCalculo

\* The user enters valor in the field parametro, which emits valueChanged;
\* the slot is changeParams(parametro, valor), ending in calculo.
valueChanged ==
    /\ dialog = "UI_equipment"
    /\ \E parametro \in Fields, valor \in Values :
          /\ fields' = changeParams([fields EXCEPT ![parametro] = <<valor>>],
                                    parametro)
          /\ lastCalculo' = [called |-> TRUE, parametro |-> parametro,
                             valor |-> valor]
    /\ UNCHANGED equipment
    /\ UNCHANGED <<dialog, wizardVars, chartVars, elementalVars, valueVars>>

-----------------------------------------------------------------------------
(* lib/elemental.py *)

MaxId == 120
MaxAtomicNumber == 118

\* '%i' % id: the decimal digits of id; and their reading back as a number
\* (the comparison of the id column with the quoted literal, int(data[0])).
RECURSIVE FormatI(_)
FormatI(n) == IF n < 10 THEN <<n>> ELSE Append(FormatI(n \div 10), n % 10)
RECURSIVE ParseInt(_)
ParseInt(s) ==
    IF Len(s) = 0 THEN 0
    ELSE 10 * ParseInt(SubSeq(s, 1, Len(s) - 1)) + s[Len(s)]

\* Table ELEMENTS of dat/elemental.db: one row per atomic number, the id in
\* its first column (kept as its digits; the other columns are left out).
ELEMENTS == [n \in 1..MaxAtomicNumber |-> <<FormatI(n)>>]

\* databank.execute("SELECT * FROM ELEMENTS WHERE id=='%i'" % id): the
\* cursor drops what it held and takes the rows of the new query.
execute(literal) ==
    LET wanted == ParseInt(literal)
    IN SelectSeq(ELEMENTS, LAMBDA row : ParseInt(row[1]) = wanted)

\* if id > 118: id = 118
Elemental_clamp_missing(id) == id
Elemental_clamp(id) == IF id > MaxAtomicNumber THEN MaxAtomicNumber ELSE id

NoElement == [arg |-> 0, reused |-> FALSE, ok |-> FALSE, id |-> 0]

\* Elemental.__init__(id) up to self.id = int(data[0]); fetchone() of an
\* empty result is None, and data[0] then raises TypeError.
Elemental_init(id) ==
    LET rows == execute(FormatI(Elemental_clamp(id)))
    IN IF rows = <<>>
       THEN /\ databank' = rows
            /\ element' = [arg |-> id, reused |-> element.arg # 0,
                           ok |-> FALSE, id |-> 0]
       ELSE /\ databank' = Tail(rows)
            /\ element' = [arg |-> id, reused |-> element.arg # 0,
                           ok |-> TRUE, id |-> ParseInt(Head(rows)[1])]

ElementalIdle ==
    /\ databank = <<>>
    /\ element = NoElement

NewElemental ==
    /\ dialog = "Elemental"
    /\ \E id \in 1..MaxId : Elemental_init(id)
    /\ UNCHANGED <<dialog, wizardVars, chartVars, valueVars, equipmentVars>>

-----------------------------------------------------------------------------

Init ==
    /\ dialog \in {"Wizard", "Elemental", "UI_equipment"} \cup Charts
    /\ IF dialog = "Wizard" THEN WizardInit ELSE WizardIdle
    /\ IF dialog = "Wizard" THEN ValueInit ELSE ValueIdle
    /\ IF dialog = "UI_equipment" THEN UI_equipment_init
                                  ELSE UI_equipment_idle
    /\ IF dialog \in Charts THEN ChartInit ELSE ChartIdle
    /\ ElementalIdle

Next ==
    \/ Show
    \/ NextClicked
    \/ BackClicked
    \/ AddComponent
    \/ RemoveComponent
    \/ Wizard_auto
    \/ ComponentsChangedInExec
    \/ Wizard_auto_exec
    \/ Finish
    \/ ReadValue
    \/ FlowChanged
    \/ MixedChanged
    \/ SaveClicked
    \/ NewElemental
    \/ valueChanged

Spec == Init /\ [][Next]_vars

-----------------------------------------------------------------------------
(* Observations on the drawn lines *)

\* Every ordinate of the lines drawn by the last plot().
Ordinates ==
    UNION {{curves[c].y[k] : k \in 1..Len(curves[c].y)} : c \in 1..Len(curves)}
\* The evaluator calls the last plot() made.
Calls == {p \in Ordinates : IsCall(p)}
\* Their number: one per evaluated abscissa of each line.
CallCount ==
    Cardinality(UNION {{<<c, k>> : k \in {j \in 1..Len(curves[c].y) :
                                          IsCall(curves[c].y[j])}} :
                       c \in 1..Len(curves)})
PassesMixed(p) == \E kv \in p.kw : kv[1] = "mixed"

\* Whether an NTU sample is NTU = 0: tenths in Efectividad; in
\* TemperatureEfectividad a sample n stands for 10^(n/198), never 0.
NTU_isZero(chart, n) == chart = "Efectividad" /\ n = 0

\* FlowArrangement as enumerated in the data model of the specification.
FlowArrangement ==
    {"CF", "PF", "CrFunMix", "CrFSMix", "CrFMix", "1-2TEMAE", "1-3TEMAE",
     "1-4TEMAE", "1-1TEMAG", "1-2TEMAG", "1-1TEMAH", "1-2TEMAH", "1-1TEMAJ",
     "1-2TEMAJ", "1-4TEMAJ"}

-----------------------------------------------------------------------------
(* Claims *)

\* C1: on the components page (id 1) the Next button is enabled exactly when
\* the component list is non-empty, after every navigation or component
\* event, and the wizard never goes from page 1 to page 2 with an empty list.
C1_NextOnlyWithComponents ==
    [][/\ (currentId' = 1 => (nextEnabled' <=> Len(indices') # 0))
       /\ (currentId = 1 /\ currentId' = 2 => Len(indices) # 0)]_vars
\* Back on page 1 after a visit of page 2, list emptied, Next disabled.
C1_Witness ==
    /\ dialog = "Wizard" /\ currentId = 1 /\ lastAuto.called
    /\ indices = <<>> /\ ~nextEnabled

\* C2 (as claimed): every evaluator call passes `mixed` iff its tag is
\* CrFSMix, and a passed value is Cmin or Cmax.
C2_MixedIsCminOrCmax ==
    dialog \in Charts =>
        \A p \in Calls :
            /\ PassesMixed(p) <=> p.flujo = "CrFSMix"
            /\ \A kv \in p.kw : kv[2] \in {"Cmin", "Cmax"}
\* C2 (amended): every evaluator call passes `mixed` iff its tag is CrFSMix,
\* and a passed value is Cmin or Cmax in Efectividad, F and Fi, and "1" or
\* "2" in TemperatureEfectividad.
C2_MixedOnlyForCrFSMix ==
    dialog \in Charts =>
        \A p \in Calls :
            /\ PassesMixed(p) <=> p.flujo = "CrFSMix"
            /\ \A kv \in p.kw :
                  kv[2] \in (IF dialog = "TemperatureEfectividad"
                             THEN {"1", "2"} ELSE {"Cmin", "Cmax"})
\* TemperatureEfectividad redrawn for CrFSMix with the second mixed entry.
C2_Witness ==
    /\ dialog = "TemperatureEfectividad" /\ mixedIndex = 1
    /\ \E p \in Calls : p.flujo = "CrFSMix" /\ <<"mixed", "2">> \in p.kw

\* C3 (as claimed): every tag handed to an evaluator is one of the fifteen
\* members of FlowArrangement.
C3_TagsInFlowArrangement ==
    dialog \in Charts => \A p \in Calls : p.flujo \in FlowArrangement
\* C3 (amended): every tag handed to an evaluator is a member of
\* FlowArrangement or the divided-shell tag 1-2TEMAE2.
C3_TagsInFlowArrangementOrDivided ==
    dialog \in Charts =>
        \A p \in Calls : p.flujo \in FlowArrangement \cup {"1-2TEMAE2"}
\* TemperatureEfectividad drawn for its seventh arrangement.
C3_Witness ==
    /\ dialog = "TemperatureEfectividad" /\ flowIndex = 6
    /\ \E p \in Calls : p.flujo = "1-2TEMAE2"

\* C4: every line drawn by Efectividad.plot, for each arrangement and each
\* of the six C*, has the value 0 at its sample NTU = 0.
C4_ZeroAtNTUZero ==
    dialog = "Efectividad" =>
        /\ Len(curves) = 6
        /\ \A c \in 1..Len(curves) :
              \E k \in 1..Len(curves[c].x) :
                  curves[c].x[k] = 0 /\ curves[c].y[k] = Zero
\* Efectividad redrawn for crossflow, both fluids mixed.
C4_Witness ==
    /\ dialog = "Efectividad" /\ flowIndex = 4
    /\ \A c \in 1..6 : curves[c].y[2].flujo = "CrFMix"

\* C6: every call Fi.plot makes is to the Fi evaluator with tag 1-2TEMAE
\* and without a `mixed` argument, whatever the mixed selector shows.
C6_FiOnlyTEMAE ==
    dialog = "Fi" =>
        /\ Calls # {}
        /\ \A p \in Calls :
              p.fn = "Fi" /\ p.flujo = "1-2TEMAE" /\ ~PassesMixed(p)
\* Fi redrawn after the mixed selector was moved to its second entry.
C6_Witness == dialog = "Fi" /\ mixedIndex = 1 /\ Calls # {}

\* C7: in every chart the mixed combo box is visible iff the arrangement
\* last plotted is CrFSMix.
C7_MixedVisibleIffCrFSMix ==
    dialog \in Charts =>
        (mixedVisible <=> \A p \in Calls : p.flujo = "CrFSMix")

\* C8 (as claimed): a redraw of any chart makes fewer than 1000 evaluator
\* calls.
C8_FewerThan1000Calls == dialog \in Charts => CallCount < 1000
\* C8 (amended): a redraw makes 360 calls in Efectividad (6 lines of 60
\* evaluated samples), 2079 in TemperatureEfectividad (21 of 99), 2323 in F
\* (23 of 101) and 2222 in Fi (22 of 101): fewer than 2400 in every chart.
C8_CallVolume ==
    dialog \in Charts =>
        /\ CallCount = (CASE dialog = "Efectividad" -> 6 * 60
                          [] dialog = "TemperatureEfectividad" -> 21 * 99
                          [] dialog = "F" -> 23 * 101
                          [] dialog = "Fi" -> 22 * 101)
        /\ CallCount < 2400
\* F redrawn for CrFSMix with the second mixed entry.
C8_Witness ==
    dialog = "F" /\ flowIndex = 1 /\ mixedIndex = 1 /\ CallCount = 2323

\* C9: with components and environment fixed, the temperatures and
\* pressures entered in AutoDialog can change the configuration auto()
\* returns.
C9_ConditionsChangeConfig ==
    lastAuto.called =>
        \E tmin \in Temps, tmax \in Temps, pmin \in Pressures,
           pmax \in Pressures :
            auto(tmin, tmax, pmin, pmax, lastAuto.components, environ)
                # lastAuto.config

\* C10: after every page change the Auto button is visible iff the current
\* page is the thermodynamics page (id 2).
C10_AutoOnlyOnThermoPage ==
    (dialog = "Wizard" /\ currentId # -1) =>
        (customVisible <=> currentId = 2)
\* On the transport page after Auto was used on the thermo page.
C10_Witness ==
    /\ dialog = "Wizard" /\ currentId = 3 /\ lastAuto.called
    /\ ~customVisible

\* C11: for every integer id >= 1, Elemental(id) has the id attribute
\* min(id, 118), whatever constructions used the shared cursor before.
C11_ElementalLoadsId ==
    (dialog = "Elemental" /\ element.arg >= 1) =>
        /\ element.ok
        /\ element.id = (IF element.arg < 118 THEN element.arg ELSE 118)
\* Elemental(120) built on a cursor an earlier Elemental used: its id is 118.
C11_Witness ==
    /\ dialog = "Elemental" /\ element.reused
    /\ element.arg = 120 /\ element.id = 118

\* C12: Chart.save opens the save-file dialog and, once a name is selected,
\* ends with the figure written to that file and not in an error.
C12_SaveWritesChart ==
    (dialog \in Charts /\ saved.invoked) =>
        /\ saved.dialogShown
        /\ saved.error = ""
        /\ saved.file \in FileNames

\* C13: in Efectividad and TemperatureEfectividad, after any sequence of
\* arrangement and mixed selections, the lines and the equation image last
\* drawn are those of the arrangement currently selected and, for CrFSMix,
\* of the mixed entry currently selected.
C13_DrawnFollowsSelection ==
    dialog \in {"Efectividad", "TemperatureEfectividad"} =>
        LET tag == flujo(dialog)[flowIndex + 1]
            text == mezclado(dialog)[mixedIndex + 1]
        IN /\ Calls # {}
           /\ \A p \in Calls :
                 /\ p.flujo = tag
                 /\ p.kw = (IF tag = "CrFSMix" THEN {<<"mixed", text>>} ELSE {})
           /\ img = (IF dialog = "TemperatureEfectividad" /\ tag = "CrFSMix"
                        /\ mixedIndex = 1
                     THEN "CrFSMix2.png" ELSE tag \o ".png")
\* Efectividad on CrFSMix after the mixed selector was moved to Cmax.
C13_Witness ==
    /\ dialog = "Efectividad" /\ flowIndex = 3 /\ mixedIndex = 1
    /\ \E p \in Calls : <<"mixed", "Cmax">> \in p.kw

\* C14: in the NTU sweeps of Efectividad.plot and TemperatureEfectividad.plot
\* each line has as many values as abscissae, every evaluated value belongs
\* to the abscissa it is plotted against, and the constant 0 stands only
\* where the abscissa is NTU = 0.
C14_ZeroOnlyAtNTUZero ==
    dialog \in {"Efectividad", "TemperatureEfectividad"} =>
        \A c \in 1..Len(curves) :
            /\ Len(curves[c].y) = Len(curves[c].x)
            /\ \A k \in 1..Len(curves[c].y) :
                  IF curves[c].y[k] = Zero
                  THEN NTU_isZero(dialog, curves[c].x[k])
                  ELSE curves[c].y[k].x = curves[c].x[k]

\* C15: a run of Wizard.auto whose dialog is cancelled evaluates auto() not
\* at all and leaves the thermo configuration as it was; a run whose dialog
\* is accepted calls setConfig exactly once, with auto(tmin, tmax, pmin,
\* pmax, indices) of the values entered and the component list of the moment
\* exec_() returns; nothing else changes the thermo configuration.
C15_ConfigOnlyOnAccept ==
    [][<<autoRun, lastAuto, thermoConfig>>' # <<autoRun, lastAuto, thermoConfig>>
       => \/ /\ autoRun'.outcome \in {"none", "open"}
             /\ autoRun'.evals = 0 /\ autoRun'.setConfigs = 0
             /\ UNCHANGED <<thermoConfig, lastAuto>>
          \/ /\ AutoDialogOpen
             /\ autoRun'.outcome = "rejected"
             /\ autoRun'.evals = 0 /\ autoRun'.setConfigs = 0
             /\ UNCHANGED <<thermoConfig, lastAuto>>
          \/ /\ AutoDialogOpen
             /\ autoRun'.outcome = "accepted"
             /\ autoRun'.evals = 1 /\ autoRun'.setConfigs = 1
             /\ lastAuto'.components = indices
             /\ thermoConfig' = auto(autoRun'.tmin, autoRun'.tmax,
                                     autoRun'.pmin, autoRun'.pmax,
                                     indices, environ)]_vars
\* The component list was changed while AutoDialog was open, to methane and
\* water, and the dialog was accepted: the configuration is that of the two.
C15_Witness ==
    /\ dialog = "Wizard" /\ autoRun.outcome = "accepted"
    /\ autoRun.changedInExec /\ lastAuto.components = <<1, 62>>
    /\ thermoConfig = auto(autoRun.tmin, autoRun.tmax, autoRun.pmin,
                           autoRun.pmax, <<1, 62>>, environ)
    /\ "GERG" \in thermoConfig

\* C17: in the equipment dialog opened without an equipment, after every
\* valueChanged event at most one of Tout, DeltaT and Heat holds a value:
\* an event on one of the three leaves the other two empty, and an event on
\* A, U, Text or DeltaP leaves the three as they were.
C17_OneOfToutDeltaTHeat ==
    [][dialog = "UI_equipment" /\ ~equipment =>
         LET three == {"Tout", "DeltaT", "Heat"}
             p == lastCalculo'.parametro
         IN /\ Cardinality({q \in three : fields'[q] # None}) <= 1
            /\ p \in three =>
                  /\ fields'[p] = <<lastCalculo'.valor>>
                  /\ \A q \in three \ {p} : fields'[q] = None
            /\ p \in Fields \ three =>
                  /\ fields'[p] = <<lastCalculo'.valor>>
                  /\ \A q \in three : fields'[q] = fields[q]]_vars
\* DeltaT was entered after Tout had been, with the area entered in between.
C17_Witness ==
    /\ dialog = "UI_equipment" /\ ~equipment
    /\ lastCalculo.called /\ lastCalculo.parametro = "DeltaT"
    /\ fields["DeltaT"] = <<10>> /\ fields["Tout"] = None
    /\ fields["A"] = <<10>> /\ fields["DeltaP"] = <<0>>

====
